---- MODULE Spec2Model ----
(***************************************************************************)
(* Model of the st7735 driver (package st7735).                            *)
(*                                                                         *)
(* The driver talks to three collaborators: the SPI connection (Tx), the   *)
(* data/command-select pin dc and the reset pin rst (Out).  Every call to  *)
(* a collaborator is one step of the model and may succeed or fail; the    *)
(* calls made so far by the running New / SetImage / sendData call are     *)
(* recorded, in order, in log.                                             *)
(***************************************************************************)
EXTENDS Integers, Sequences, FiniteSets, TLC

(***************************************************************************)
(* Bounds of the model.                                                    *)
(***************************************************************************)
\* number of collaborator calls the environment lets fail in one behaviour
MaxFaults == 1
\* number of SetImage calls made on a handle
MaxCalls == 1
\* a small transfer limit a transport may report (forces chunking)
SmallTx == 3
\* largest image coordinate
MaxCoord == 1
\* toRGB565 called on its own: largest image coordinate
MaxDim == 2
\* sendData called on its own: largest payload length and transfer limit
MaxLen == 7
MaxTx == 4

(***************************************************************************)
(* Program constants.                                                      *)
(***************************************************************************)
width == 162
height == 132

softwareRst == \h01
sleepOut == \h11
partialOff == \h13
inverseOff == \h21
displayOn == \h29
columnAddress == \h2A
rowAddress == \h2B
memoryWrite == \h2C
memoryDAC == \h36
pixelFormat == \h3A
frameControl1 == \hB1
frameControl2 == \hB2
frameControl3 == \hB3
invControl == \hB4
powerControl1 == \hC0
powerControl2 == \hC1
powerControl3 == \hC2
powerControl4 == \hC3
powerControl5 == \hC4
vmControl1 == \hC5
gammaControlPositive == \hE0
gammaControlNegative == \hE1

\* maxTxSize = 4096 // Use a conservative default.
DefaultMaxTxSize == 4096
\* time.Sleep(50 * time.Millisecond) in reset
ResetDelay == 50

(***************************************************************************)
(* Machine arithmetic.                                                     *)
(***************************************************************************)
Pow2(n) == 2 ^ n

\* conversion to Go's byte
Byte(x) == x % 256

\* x >> n on a byte
ByteShr(x, n) == Byte(x \div Pow2(n))

(***************************************************************************)
(* Panel geometries: type Model and its two implementations.               *)
(***************************************************************************)
Models == {"ModelStandard", "ModelMini"}

OffsetY(m) ==
  IF m = "ModelStandard" THEN 0 ELSE Byte((width - 160) \div 2)

OffsetYEnd(m) ==
  IF m = "ModelStandard" THEN Byte(height - 1)
  ELSE Byte(Byte(160 + OffsetY(m)) - 1)

OffsetX(m) ==
  IF m = "ModelStandard" THEN 0 ELSE Byte((height - 80) \div 2)

OffsetXEnd(m) ==
  IF m = "ModelStandard" THEN Byte(width - 1)
  ELSE Byte(Byte(80 + OffsetX(m)) - 1)

(***************************************************************************)
(* type Command.  Data is a Go slice: DataNil tells a nil slice from an    *)
(* allocated one; Delay is in milliseconds.                                *)
(***************************************************************************)
Cmd(c, data, delay) ==
  [Command |-> c, Data |-> data, DataNil |-> FALSE, Delay |-> delay]

CmdNoData(c, delay) ==
  [Command |-> c, Data |-> <<>>, DataNil |-> TRUE, Delay |-> delay]

GammaNegative ==
  << \h03, \h1D, \h07, \h06, \h2E, \h2C, \h29, \h2D,
     \h2E, \h2E, \h37, \h3F, \h00, \h00, \h02, \h10 >>

GammaPositive ==
  << \h02, \h1C, \h07, \h12, \h37, \h32, \h29, \h2D,
     \h29, \h25, \h2B, \h39, \h00, \h01, \h03, \h10 >>

\* the slice cmd built by New for geometry m
InitTable(m) ==
  << CmdNoData(softwareRst, 50),
     CmdNoData(sleepOut, 50),
     Cmd(frameControl1, << \h01, \h2C, \h2D >>, 0),
     Cmd(frameControl2, << \h01, \h2C, \h2D >>, 0),
     Cmd(frameControl3, << \h01, \h2C, \h2D, \h01, \h2C, \h2D >>, 0),
     Cmd(invControl, << \h07 >>, 0),
     Cmd(powerControl1, << \hA2, \h02, \h84 >>, 0),
     Cmd(powerControl2, << \hC5 >>, 0),
     Cmd(powerControl3, << \h0A, \h00 >>, 0),
     Cmd(powerControl4, << \h8A, \h2A >>, 0),
     Cmd(powerControl5, << \h8A, \hEE >>, 0),
     Cmd(vmControl1, << \h0E >>, 0),
     CmdNoData(inverseOff, 0),
     Cmd(memoryDAC, << \hC8 >>, 0),
     Cmd(pixelFormat, << \h05 >>, 0),
     Cmd(columnAddress,
         << columnAddress, \h00, Byte(OffsetX(m)), \h00, Byte(OffsetXEnd(m)) >>, 0),
     Cmd(rowAddress,
         << rowAddress, \h00, Byte(OffsetY(m)), \h00, Byte(OffsetYEnd(m)) >>, 0),
     Cmd(gammaControlPositive, GammaPositive, 0),
     Cmd(gammaControlNegative, GammaNegative, 0),
     Cmd(partialOff, GammaNegative, 10),
     Cmd(displayOn, GammaNegative, 100) >>

\* mutant: the x and y ranges change places
WindowTableSwapped(x0, x1, y0, y1) ==
  << Cmd(columnAddress, << ByteShr(y0, 8), y0, ByteShr(y1, 8), y1 >>, 0),
     Cmd(rowAddress, << ByteShr(x0, 8), x0, ByteShr(x1, 8), x1 >>, 0) >>

\* the two commands setWindowAddress hands to send
WindowTable(x0, x1, y0, y1) ==
  << Cmd(columnAddress, << ByteShr(x0, 8), x0, ByteShr(x1, 8), x1 >>, 0),
     Cmd(rowAddress, << ByteShr(y0, 8), y0, ByteShr(y1, 8), y1 >>, 0) >>

(***************************************************************************)
(* Pixel conversion: toRGB565.                                             *)
(***************************************************************************)
RECURSIVE BitAnd(_, _)
BitAnd(a, b) ==
  IF a = 0 \/ b = 0 THEN 0
  ELSE (a % 2) * (b % 2) + 2 * BitAnd(a \div 2, b \div 2)

RECURSIVE BitOr(_, _)
BitOr(a, b) ==
  IF a = 0 THEN b
  ELSE IF b = 0 THEN a
  ELSE (IF a % 2 = 1 \/ b % 2 = 1 THEN 1 ELSE 0) + 2 * BitOr(a \div 2, b \div 2)

\* x << n and x >> n on a uint32: the bits shifted past bit 31 are dropped
Shl32(x, n) == (x % Pow2(32 - n)) * Pow2(n)
Shr32(x, n) == x \div Pow2(n)

\* uint16((r<<8)&0b1111100000000000 | (g<<3)&0b0000011111100000 | (b>>3)&0b0000000000011111)
RGB565(r, g, b) ==
  BitOr(BitOr(BitAnd(Shl32(r, 8), \hF800), BitAnd(Shl32(g, 3), \h07E0)),
        BitAnd(Shr32(b, 3), \h001F)) % Pow2(16)

\* binary.BigEndian.PutUint16
PutUint16(v) == << v \div 256, v % 256 >>

\* An image is its bounds rectangle; the colour of a pixel is a fixed function
\* of its position, and the zero colour outside the bounds.
Coords == 0 .. MaxCoord

Rectangles ==
  { r \in [MinX : Coords, MinY : Coords, MaxX : Coords, MaxY : Coords] :
      r.MinX <= r.MaxX /\ r.MinY <= r.MaxY }

Dx(r) == r.MaxX - r.MinX
Dy(r) == r.MaxY - r.MinY

InBounds(r, x, y) == r.MinX <= x /\ x < r.MaxX /\ r.MinY <= y /\ y < r.MaxY

\* the colour of the pixel at the minimum corner: the image's field c, when it
\* has one
BaseColour(r) ==
  IF "c" \in DOMAIN r THEN r.c ELSE << 2048, 1024, 8, 65535 >>

\* img.At(x, y).RGBA(): neighbouring pixels differ in every channel
At(r, x, y) ==
  IF InBounds(r, x, y)
  THEN LET c == BaseColour(r)
           u == x - r.MinX
           v == y - r.MinY
       IN  << (c[1] + u * 9001 + v * 2251) % 65536,
              (c[2] + u * 4099 + v * 1031) % 65536,
              (c[3] + u * 257 + v * 8209) % 65536,
              c[4] >>
  ELSE << 0, 0, 0, 0 >>

Zeros(n) == [k \in 1 .. n |-> 0]

\* the two nested loops of toRGB565, from iteration (x, y) with index i on;
\* a write past the end of the buffer is a run-time panic
RECURSIVE toRGB565Loop(_, _, _, _, _)
toRGB565Loop(r, x, y, i, buf) ==
  IF x >= r.MaxX THEN [panic |-> FALSE, buf |-> buf]
  ELSE IF y >= r.MaxY THEN toRGB565Loop(r, x + 1, 0, i, buf)
  ELSE IF i + 2 > Len(buf) THEN [panic |-> TRUE, buf |-> << >>]
  ELSE LET c == At(r, x, y)
           w == PutUint16(RGB565(c[1], c[2], c[3]))
       IN  toRGB565Loop(r, x, y + 1, i + 2,
                        [buf EXCEPT ![i + 1] = w[1], ![i + 2] = w[2]])

\* mutant: the buffer is filled row by row (outer loop over y)
toRGB565RowMajor(r) ==
  [panic |-> FALSE,
   buf |-> [i \in 1 .. Dx(r) * Dy(r) * 2 |->
              LET k == (i - 1) \div 2
                  c == At(r, r.MinX + (k % Dx(r)), r.MinY + (k \div Dx(r)))
              IN  PutUint16(RGB565(c[1], c[2], c[3]))[((i - 1) % 2) + 1]]]

toRGB565(r) == toRGB565Loop(r, 0, 0, 0, Zeros(Dx(r) * Dy(r) * 2))

(***************************************************************************)
(* State.                                                                  *)
(***************************************************************************)
VARIABLES
  op,       \* the exported call in progress or last made: "none", "New", "SetImage", "sendData"
  pc,       \* position of the control flow inside that call
  ctx,      \* caller of the running sendCommand / sendData: "send", or "direct"
  cmds,     \* the commands being sent by the running loop
  ci,       \* index in cmds of the command send is working on (0: none)
  arg,      \* argument c of the running sendCommand
  data,     \* sendData's variable data: what is still to be sent
  payload,  \* the argument sendData was called with
  img,      \* argument of SetImage
  d,        \* the Dev struct: [maxTxSize, Model]
  handle,   \* the *Dev the caller got from New (NoDev: nil)
  err,      \* the error the last call returned
  limits,   \* the connection: whether it implements conn.Limits, and MaxTxSize()
  dcPin,    \* level last written successfully to the dc pin
  log,      \* collaborator calls of the current call, in issue order
  faults,   \* collaborator calls that have failed so far
  calls     \* SetImage calls made so far

vars ==
  << op, pc, ctx, cmds, ci, arg, data, payload, img, d, handle, err, limits,
     dcPin, log, faults, calls >>

NoDev == [maxTxSize |-> 0, Model |-> "nil"]
NoErr == [kind |-> "nil", at |-> 0]
NoImage == [MinX |-> 0, MinY |-> 0, MaxX |-> 0, MaxY |-> 0]
NoLimits == [has |-> FALSE, size |-> 0]

\* the error a collaborator returns for the call logged at position at
Err(kind, at) == [kind |-> kind, at |-> at]

\* errors.New("could not connect to device")
ConnectErr == [kind |-> "could not connect to device", at |-> 0]

\* what a connection may answer to MaxTxSize()
ReportedSizes == {0, SmallTx, DefaultMaxTxSize}

LimitsChoices == {NoLimits} \cup {[has |-> TRUE, size |-> s] : s \in ReportedSizes}

\* the outcomes the environment may give the next collaborator call
Outcomes == {ok \in BOOLEAN : ok \/ faults < MaxFaults}

Fault(ok) == faults' = IF ok THEN faults ELSE faults + 1

\* one logged collaborator call
Event(ev, pin, level, bytes, ok, ms, by) ==
  [ev |-> ev, pin |-> pin, level |-> level, bytes |-> bytes, ok |-> ok,
   ms |-> ms, by |-> by, dc |-> dcPin, ctx |-> ctx, ci |-> ci]

EvConnect(ok) == Event("connect", "", "", << >>, ok, 0, "New")
EvOut(pin, level, ok, by) == Event("out", pin, level, << >>, ok, 0, by)
EvTx(bytes, ok, by) == Event("tx", "", "", bytes, ok, 0, by)
EvSleep(ms, by) == Event("sleep", "", "", << >>, TRUE, ms, by)

(***************************************************************************)
(* Control-flow helpers.  Each fixes pc, ctx, ci, arg, payload, err and    *)
(* handle.                                                                 *)
(***************************************************************************)
Goto(l) ==
  /\ pc' = l
  /\ UNCHANGED << ctx, ci, arg, payload, err, handle >>

\* the exported call returns e; New hands out d only with a nil error
Return(e) ==
  /\ pc' = "return"
  /\ err' = e
  /\ handle' = IF op = "New" THEN (IF e = NoErr THEN d ELSE NoDev) ELSE handle
  /\ UNCHANGED << ctx, ci, arg, payload >>

\* send(tab[k]) is called and calls sendCommand
EnterSend(tab, k) ==
  /\ pc' = "sendCommandOut"
  /\ ctx' = "send"
  /\ ci' = k
  /\ arg' = << tab[k].Command >>
  /\ UNCHANGED << payload, err, handle >>

\* sendCommand(c) is called outside send
EnterSendCommand(c) ==
  /\ pc' = "sendCommandOut"
  /\ ctx' = "direct"
  /\ ci' = 0
  /\ arg' = c
  /\ UNCHANGED << payload, err, handle >>

\* sendData(bytes) is called
EnterSendData(bytes, cx) ==
  /\ pc' = "sendDataOut"
  /\ ctx' = cx
  /\ payload' = bytes
  /\ data' = bytes
  /\ UNCHANGED << ci, arg, err, handle >>

\* sendData returns nil to its caller
SendDataReturns ==
  IF ctx = "send" THEN Goto("sendDelay") ELSE Return(NoErr)

(***************************************************************************)
(* New, lines 133-157: connect, negotiate the transfer size, build Dev.    *)
(***************************************************************************)
\* mutant: the connection's limit is not asked for
NegotiatedMaxTxSizeDefaultOnly(lim) == DefaultMaxTxSize

\* maxTxSize as New computes it from the connection
NegotiatedMaxTxSize(lim) ==
  LET maxTxSize == IF lim.has THEN lim.size ELSE 0
  IN  IF maxTxSize = 0 THEN DefaultMaxTxSize ELSE maxTxSize

New(m) ==
  /\ pc = "idle"
  /\ op' = "New"
  /\ \E ok \in Outcomes, lim \in LimitsChoices :
       /\ Fault(ok)
       /\ log' = << EvConnect(ok) >>
       /\ IF ok
          THEN /\ limits' = lim
               /\ d' = [maxTxSize |-> NegotiatedMaxTxSize(lim), Model |-> m]
               /\ pc' = "reset1"
               /\ UNCHANGED << err, handle >>
          ELSE /\ pc' = "return"
               /\ err' = ConnectErr
               /\ handle' = NoDev
               /\ UNCHANGED << limits, d >>
  /\ UNCHANGED << ctx, cmds, ci, arg, data, payload, img, dcPin, calls >>

(***************************************************************************)
(* reset, and the start of New's command loop when it returns nil.         *)
(***************************************************************************)
\* mutant: the reset pulse is inverted
ResetLevelInverted(l) == IF l = "reset2" THEN "High" ELSE "Low"

ResetLevel(l) == IF l = "reset2" THEN "Low" ELSE "High"

\* mutant: the error of d.rst.Out is dropped
resetUnchecked ==
  /\ pc \in {"reset1", "reset2", "reset3"}
  /\ \E ok \in Outcomes :
       /\ Fault(ok)
       /\ log' = log \o << EvOut("rst", ResetLevel(pc), ok, "reset"),
                           EvSleep(ResetDelay, "reset") >>
       /\ IF pc = "reset1" THEN Goto("reset2") /\ UNCHANGED cmds
          ELSE IF pc = "reset2" THEN Goto("reset3") /\ UNCHANGED cmds
          ELSE /\ cmds' = InitTable(d.Model)
               /\ EnterSend(InitTable(d.Model), 1)
  /\ UNCHANGED << op, data, img, d, limits, dcPin, calls >>

reset ==
  /\ pc \in {"reset1", "reset2", "reset3"}
  /\ \E ok \in Outcomes :
       /\ Fault(ok)
       /\ IF ok
          THEN /\ log' = log \o << EvOut("rst", ResetLevel(pc), TRUE, "reset"),
                                   EvSleep(ResetDelay, "reset") >>
               /\ IF pc = "reset1" THEN Goto("reset2") /\ UNCHANGED cmds
                  ELSE IF pc = "reset2" THEN Goto("reset3") /\ UNCHANGED cmds
                  ELSE /\ cmds' = InitTable(d.Model)
                       /\ EnterSend(InitTable(d.Model), 1)
          ELSE /\ log' = Append(log, EvOut("rst", ResetLevel(pc), FALSE, "reset"))
               /\ Return(Err("pin", Len(log) + 1))
               /\ UNCHANGED cmds
  /\ UNCHANGED << op, data, img, d, limits, dcPin, calls >>

(***************************************************************************)
(* sendCommand: dc low, then one transaction carrying c.                   *)
(***************************************************************************)
\* mutant: sendCommand drives dc the wrong way
SendCommandLevelHigh == "High"

SendCommandLevel == "Low"

sendCommandOut ==
  /\ pc = "sendCommandOut"
  /\ \E ok \in Outcomes :
       /\ Fault(ok)
       /\ log' = Append(log, EvOut("dc", SendCommandLevel, ok, "sendCommand"))
       /\ IF ok
          THEN dcPin' = SendCommandLevel /\ Goto("sendCommandTx")
          ELSE UNCHANGED dcPin /\ Return(Err("pin", Len(log) + 1))
  /\ UNCHANGED << op, cmds, data, img, d, limits, calls >>

sendCommandTx ==
  /\ pc = "sendCommandTx"
  /\ \E ok \in Outcomes :
       /\ Fault(ok)
       /\ log' = Append(log, EvTx(arg, ok, "sendCommand"))
       /\ IF ~ok
          THEN Return(Err("tx", Len(log) + 1)) /\ UNCHANGED data
          ELSE IF ctx = "send"
          THEN \* back in send: if command.Data != nil
               IF cmds[ci].DataNil
               THEN Goto("sendDelay") /\ UNCHANGED data
               ELSE EnterSendData(cmds[ci].Data, "send")
          ELSE \* setWindowAddress returns nil to SetImage
               Goto("toRGB565") /\ UNCHANGED data
  /\ UNCHANGED << op, cmds, img, d, limits, dcPin, calls >>

(***************************************************************************)
(* sendData: dc high, then the payload in chunks of at most maxTxSize.     *)
(***************************************************************************)
SendDataLevel == "High"

\* mutant: a chunk that is cut is cut one byte short
ChunkShort(bytes, maxTxSize) ==
  IF Len(bytes) > maxTxSize
  THEN SubSeq(bytes, 1, maxTxSize - 1)
  ELSE bytes

\* one iteration's chunk and what is left of data
Chunk(bytes, maxTxSize) ==
  IF Len(bytes) > maxTxSize
  THEN SubSeq(bytes, 1, maxTxSize)
  ELSE bytes

\* mutant: what is left after a cut lacks its first byte
RestDropsByte(bytes, maxTxSize) ==
  IF Len(bytes) > maxTxSize
  THEN SubSeq(bytes, maxTxSize + 2, Len(bytes))
  ELSE << >>

\* mutant: the loop leaves the last piece in data
RestKeepsLast(bytes, maxTxSize) ==
  IF Len(bytes) > maxTxSize
  THEN SubSeq(bytes, maxTxSize + 1, Len(bytes))
  ELSE bytes

Rest(bytes, maxTxSize) ==
  IF Len(bytes) > maxTxSize
  THEN SubSeq(bytes, maxTxSize + 1, Len(bytes))
  ELSE << >>

\* whether the error of d.c.Tx(chunk, nil) reaches sendData's caller
ChunkErrorReturned == FALSE

sendDataOut ==
  /\ pc = "sendDataOut"
  /\ \E ok \in Outcomes :
       /\ Fault(ok)
       /\ log' = Append(log, EvOut("dc", SendDataLevel, ok, "sendData"))
       /\ IF ~ok
          THEN UNCHANGED dcPin /\ Return(Err("pin", Len(log) + 1))
          ELSE /\ dcPin' = SendDataLevel
               /\ IF Len(data) # 0 THEN Goto("sendDataLoop") ELSE SendDataReturns
  /\ UNCHANGED << op, cmds, data, img, d, limits, calls >>

sendDataLoop ==
  /\ pc = "sendDataLoop"
  /\ Len(data) # 0
  /\ IF Len(data) > d.maxTxSize /\ d.maxTxSize < 0
     THEN \* data[:d.maxTxSize] with a negative bound
          /\ pc' = "panic"
          /\ UNCHANGED << ctx, ci, arg, payload, err, handle, data, log, faults >>
     ELSE \E ok \in Outcomes :
            /\ Fault(ok)
            /\ log' = Append(log, EvTx(Chunk(data, d.maxTxSize), ok, "sendData"))
            /\ data' = Rest(data, d.maxTxSize)
            /\ IF ~ok /\ ChunkErrorReturned
               THEN Return(Err("tx", Len(log) + 1))
               ELSE IF Len(data') # 0 THEN Goto("sendDataLoop") ELSE SendDataReturns
  /\ UNCHANGED << op, cmds, img, d, limits, dcPin, calls >>

(***************************************************************************)
(* send, lines 336-340: the command's delay; then the caller's next step.  *)
(***************************************************************************)
\* mutant: the loop loses the command after vcom-control
NextCommandSkips(k) == IF k = 12 THEN 14 ELSE k + 1

\* the element after cmds[k] in the caller's order of sends
NextCommand(k) == k + 1

sendDelay ==
  /\ pc = "sendDelay"
  /\ log' = IF cmds[ci].Delay # 0
            THEN Append(log, EvSleep(cmds[ci].Delay, "send"))
            ELSE log
  /\ IF ci < Len(cmds)
     THEN EnterSend(cmds, NextCommand(ci))
     ELSE IF op = "New"
     THEN Return(NoErr)
     ELSE \* setWindowAddress, line 289
          EnterSendCommand(<< memoryWrite >>)
  /\ UNCHANGED << op, cmds, data, img, d, limits, dcPin, faults, calls >>

(***************************************************************************)
(* SetImage.                                                               *)
(***************************************************************************)
\* the call, up to the first send of setWindowAddress
SetImage(i) ==
  /\ pc = "return"
  /\ op \in {"New", "SetImage"}
  /\ handle # NoDev
  /\ calls < MaxCalls
  /\ calls' = calls + 1
  /\ op' = "SetImage"
  /\ img' = i
  /\ log' = << >>
  /\ LET m == d.Model
         tab == WindowTable(OffsetX(m), OffsetXEnd(m), OffsetY(m), OffsetYEnd(m))
     IN  /\ cmds' = tab
         /\ pc' = "sendCommandOut"
         /\ ctx' = "send"
         /\ ci' = 1
         /\ arg' = << tab[1].Command >>
  /\ err' = NoErr
  /\ UNCHANGED << data, payload, d, handle, limits, dcPin, faults >>

\* line 301: the argument toRGB565(img) and the call of sendData
convert ==
  /\ pc = "toRGB565"
  /\ LET res == toRGB565(img)
     IN  IF res.panic
         THEN /\ pc' = "panic"
              /\ UNCHANGED << ctx, ci, arg, payload, err, handle, data >>
         ELSE EnterSendData(res.buf, "direct")
  /\ UNCHANGED << op, cmds, img, d, limits, dcPin, log, faults, calls >>

(***************************************************************************)
(* The driver: one New, then SetImage calls on the handle it returned.     *)
(***************************************************************************)
Init ==
  /\ op = "none"
  /\ pc = "idle"
  /\ ctx = "direct"
  /\ cmds = << >>
  /\ ci = 0
  /\ arg = << >>
  /\ data = << >>
  /\ payload = << >>
  /\ img = NoImage
  /\ d = NoDev
  /\ handle = NoDev
  /\ err = NoErr
  /\ limits = NoLimits
  /\ dcPin = "Unset"
  /\ log = << >>
  /\ faults = 0
  /\ calls = 0

Next ==
  \/ \E m \in Models : New(m)
  \/ reset
  \/ sendCommandOut
  \/ sendCommandTx
  \/ sendDataOut
  \/ sendDataLoop
  \/ sendDelay
  \/ \E i \in Rectangles : SetImage(i)
  \/ convert

Spec == Init /\ [][Next]_vars

(***************************************************************************)
(* sendData on its own: any payload, any positive transfer limit.          *)
(***************************************************************************)
TxSizes == (1 .. MaxTx) \cup {DefaultMaxTxSize}

\* the payload lengths tried: the short ones, and the example of the
\* chunking property, which is tried with the default limit only
PayloadLens == (0 .. MaxLen) \cup {10000}

SendDataInput(n, m) == n <= MaxLen \/ m = DefaultMaxTxSize

Payload(n) == [k \in 1 .. n |-> (7 * k + 3) % 256]

InitSendData ==
  /\ op = "sendData"
  /\ pc = "sendDataOut"
  /\ ctx = "direct"
  /\ cmds = << >>
  /\ ci = 0
  /\ arg = << >>
  /\ \E n \in PayloadLens, m \in TxSizes :
       /\ SendDataInput(n, m)
       /\ data = Payload(n)
       /\ payload = Payload(n)
       /\ d = [maxTxSize |-> m, Model |-> "ModelStandard"]
       /\ handle = [maxTxSize |-> m, Model |-> "ModelStandard"]
  /\ img = NoImage
  /\ err = NoErr
  /\ limits = NoLimits
  /\ dcPin \in {"Unset", "Low", "High"}
  /\ log = << >>
  /\ faults = 0
  /\ calls = 0

NextSendData ==
  \/ sendDataOut
  \/ sendDataLoop

SpecSendData == InitSendData /\ [][NextSendData]_vars

\* sendData is straight-line code around one loop and every call it makes
\* returns, so a step that can be taken is taken
FairSpecSendData ==
  InitSendData /\ [][NextSendData]_vars /\ WF_vars(NextSendData)

(***************************************************************************)
(* toRGB565 on its own: any bounds rectangle, pixels of many colours.      *)
(***************************************************************************)
\* channel values: the extremes, values whose high and low byte differ, and
\* one whose high and low byte agree (an 8-bit channel widened to 16 bits)
Channels == {0, 255, 2048, 32896, 65535}

Alphas == {0, 65535}

Colours == Channels \X Channels \X Channels \X Alphas

Dims == 0 .. MaxDim

ConvertImages ==
  { i \in [MinX : Dims, MinY : Dims, MaxX : Dims, MaxY : Dims, c : Colours] :
      i.MinX <= i.MaxX /\ i.MinY <= i.MaxY }

InitConvert ==
  /\ op = "toRGB565"
  /\ pc = "toRGB565"
  /\ ctx = "direct"
  /\ cmds = << >>
  /\ ci = 0
  /\ arg = << >>
  /\ data = << >>
  /\ payload = << >>
  /\ img \in ConvertImages
  /\ d = NoDev
  /\ handle = NoDev
  /\ err = NoErr
  /\ limits = NoLimits
  /\ dcPin = "Unset"
  /\ log = << >>
  /\ faults = 0
  /\ calls = 0

NextConvert == convert

SpecConvert == InitConvert /\ [][NextConvert]_vars

(***************************************************************************)
(* Reading the log.                                                        *)
(***************************************************************************)
IsTx(e) == e.ev = "tx"
IsPinWrite(e) == e.ev = "out"
IsDcWrite(e) == e.ev = "out" /\ e.pin = "dc"
IsRstWrite(e) == e.ev = "out" /\ e.pin = "rst"

\* a transaction carrying an opcode / carrying payload or pixel bytes
IsOpcodeTx(e) == IsTx(e) /\ e.by = "sendCommand"
IsDataTx(e) == IsTx(e) /\ e.by = "sendData"
\* a transaction carrying the pixels of SetImage's image
IsPixelTx(e) == IsDataTx(e) /\ e.ctx = "direct"

RECURSIVE Concat(_)
Concat(ss) == IF ss = << >> THEN << >> ELSE Head(ss) \o Concat(Tail(ss))

BytesOf(es) == Concat([k \in 1 .. Len(es) |-> es[k].bytes])

IsPrefix(s, t) == Len(s) <= Len(t) /\ s = SubSeq(t, 1, Len(s))

Running(o) == op = o /\ pc # "idle"
Returned(o) == op = o /\ pc = "return"

(***************************************************************************)
(* C1: in New, a command whose dc write, opcode transaction or payload     *)
(* transaction fails is where construction stops: the failed call is the   *)
(* last collaborator call New makes, and New returns its error and no      *)
(* handle.                                                                 *)
(***************************************************************************)
C1_FailedCommandStopsNew ==
  Running("New") =>
    \A i \in 1 .. Len(log) :
      (log[i].by \in {"sendCommand", "sendData"} /\ ~log[i].ok) =>
        /\ i = Len(log)
        /\ pc = "return"
        /\ err = Err(IF IsTx(log[i]) THEN "tx" ELSE "pin", i)
        /\ handle = NoDev

InitOpcodes ==
  << \h01, \h11, \hB1, \hB2, \hB3, \hB4, \hC0, \hC1, \hC2, \hC3, \hC4, \hC5,
     \h21, \h36, \h3A, \h2A, \h2B, \hE0, \hE1, \h13, \h29 >>

DcLowTxs == SelectSeq(log, LAMBDA e : IsTx(e) /\ e.dc = "Low")

(***************************************************************************)
(* C2: when New returns successfully, the bytes of the transactions it     *)
(* made with dc low are, in order, the 21 opcodes of the table.            *)
(***************************************************************************)
C2_OpcodeSequence ==
  (Returned("New") /\ err = NoErr) =>
    /\ Len(DcLowTxs) = 21
    /\ \A k \in 1 .. Len(DcLowTxs) : DcLowTxs[k].bytes = << InitOpcodes[k] >>

C2_Witness == Returned("New") /\ err = NoErr /\ handle # NoDev

(***************************************************************************)
(* C3: when New or SetImage returns after a collaborator call of it has    *)
(* failed, it returns a non-nil error.                                     *)
(***************************************************************************)
C3_EveryErrorReturned ==
  ((Returned("New") \/ Returned("SetImage")) /\ \E i \in 1 .. Len(log) : ~log[i].ok)
    => err # NoErr

(***************************************************************************)
(* C4: an opcode transaction is issued only while the last successful dc   *)
(* write was Low, a payload or pixel transaction only while it was High,   *)
(* and after a failed dc write no transaction follows.                     *)
(***************************************************************************)
C4_DcMatchesTransfer ==
  (Running("New") \/ Running("SetImage")) =>
    \A i \in 1 .. Len(log) :
      /\ IsOpcodeTx(log[i]) => log[i].dc = "Low"
      /\ IsDataTx(log[i]) => log[i].dc = "High"
      /\ (IsDcWrite(log[i]) /\ ~log[i].ok) => (i = Len(log) /\ pc = "return")
      /\ IsTx(log[i]) => (i > 1 /\ (IsDcWrite(log[i - 1]) => log[i - 1].ok))

C4_Witness ==
  /\ Returned("SetImage")
  /\ \E i \in 1 .. Len(log) : IsPixelTx(log[i])
  /\ \E i \in 1 .. Len(log) : IsOpcodeTx(log[i])
  /\ faults > 0

\* the collaborator calls setWindowAddress is answerable for
InWindowPhase(e) == ~(e.by = "sendData" /\ e.ctx = "direct")

WindowTxs == SelectSeq(log, LAMBDA e : IsTx(e) /\ InWindowPhase(e))
WindowOpcodeTxs == SelectSeq(log, LAMBDA e : IsOpcodeTx(e) /\ InWindowPhase(e))

WindowBytes(x0, x1, y0, y1) ==
  << \h2A, 0, x0, 0, x1, \h2B, 0, y0, 0, y1, \h2C >>

GeometryWindowBytes(m) ==
  WindowBytes(OffsetX(m), OffsetXEnd(m), OffsetY(m), OffsetYEnd(m))

(***************************************************************************)
(* C5: setWindowAddress sends 0x2A with payload [0, x0, 0, x1], 0x2B with  *)
(* payload [0, y0, 0, y1] and 0x2C, in this order and once each, and a     *)
(* failed bus transaction of any of these steps ends the call with that    *)
(* error, nothing more being issued.                                       *)
(***************************************************************************)
C5_WindowSteps ==
  Running("SetImage") =>
    /\ IsPrefix(BytesOf(WindowTxs), GeometryWindowBytes(d.Model))
    /\ IsPrefix(BytesOf(WindowOpcodeTxs), << \h2A, \h2B, \h2C >>)
    /\ \A i \in 1 .. Len(log) :
         (IsTx(log[i]) /\ InWindowPhase(log[i]) /\ ~log[i].ok) =>
           (i = Len(log) /\ pc = "return" /\ err = Err("tx", i))

\* a failed call whose error setWindowAddress receives
WindowErrorAt(i) ==
  /\ InWindowPhase(log[i])
  /\ ~log[i].ok
  /\ IsPinWrite(log[i]) \/ IsOpcodeTx(log[i])

(***************************************************************************)
(* C6: in SetImage every pixel transaction comes after the window has been *)
(* sent from the geometry's offsets and after the memory-write opcode; and *)
(* when setWindowAddress returns an error, SetImage returns it and issues  *)
(* no pixel transaction.                                                   *)
(***************************************************************************)
C6_WindowBeforePixels ==
  Running("SetImage") =>
    /\ \A i \in 1 .. Len(log) :
         IsPixelTx(log[i]) =>
           LET before == SubSeq(log, 1, i - 1)
               txs == SelectSeq(before, LAMBDA e : IsTx(e) /\ InWindowPhase(e))
               ops == SelectSeq(before, LAMBDA e : IsOpcodeTx(e))
           IN  /\ BytesOf(txs) = GeometryWindowBytes(d.Model)
               /\ BytesOf(ops) = << \h2A, \h2B, \h2C >>
               /\ \A k \in 1 .. Len(ops) : ops[k].ok
    /\ \A i \in 1 .. Len(log) :
         WindowErrorAt(i) =>
           /\ pc = "return"
           /\ err = Err(IF IsTx(log[i]) THEN "tx" ELSE "pin", i)
           /\ \A j \in 1 .. Len(log) : InWindowPhase(log[j])

C6_Witness ==
  /\ Returned("SetImage")
  /\ err = NoErr
  /\ d.Model = "ModelMini"
  /\ \E i \in 1 .. Len(log) : IsPixelTx(log[i])

(***************************************************************************)
(* sendData's transactions, for a payload of length L and maxTxSize M.     *)
(***************************************************************************)
CeilDiv(a, b) == (a + b - 1) \div b

Chunks == SelectSeq(log, IsTx)

ChunkSizes == [k \in 1 .. Len(Chunks) |-> Len(Chunks[k].bytes)]

\* ceil(L/M) transactions of at most M bytes, all but the last of M bytes,
\* which put together are the payload
PayloadChunked ==
  LET L == Len(payload)
      M == d.maxTxSize
  IN  /\ Len(Chunks) = CeilDiv(L, M)
      /\ \A k \in 1 .. Len(Chunks) :
           /\ Len(Chunks[k].bytes) <= M
           /\ k < Len(Chunks) => Len(Chunks[k].bytes) = M
      /\ BytesOf(Chunks) = payload
      /\ (L = 10000 /\ M = 4096) => ChunkSizes = << 4096, 4096, 1808 >>

\* dc is written once, High, before anything else
DcHighOnceFirst ==
  /\ Len(log) >= 1
  /\ IsDcWrite(log[1])
  /\ log[1].level = "High"
  /\ \A i \in 2 .. Len(log) : ~IsPinWrite(log[i])

(***************************************************************************)
(* C7, as stated: for every payload of length L and every M >= 1, sendData *)
(* writes dc High exactly once, first, and issues the ceil(L/M) chunks of  *)
(* the payload (4096, 4096, 1808 bytes for L = 10000, M = 4096).           *)
(***************************************************************************)
C7_ChunkingAlways ==
  Returned("sendData") => (DcHighOnceFirst /\ PayloadChunked)

(***************************************************************************)
(* C7, amended: the same when the dc write succeeds; when it fails,        *)
(* sendData returns that error and issues no transaction.                  *)
(***************************************************************************)
C7_ChunkingWhenDcWritten ==
  Returned("sendData") =>
    /\ DcHighOnceFirst
    /\ log[1].ok => (PayloadChunked /\ err = NoErr)
    /\ ~log[1].ok => (Len(Chunks) = 0 /\ err = Err("pin", 1))

C7_Witness ==
  /\ Returned("sendData")
  /\ err = NoErr
  /\ Len(payload) = 10000
  /\ Len(Chunks) = 3

NoPinWriteFailed == \A i \in 1 .. Len(log) : IsPinWrite(log[i]) => log[i].ok

ResetDone == pc \notin {"idle", "reset1", "reset2", "reset3"}

IsRstWriteOf(e, level) == IsRstWrite(e) /\ e.level = level /\ e.ok
IsSleepOf(e, ms) == e.ev = "sleep" /\ e.ms = ms

(***************************************************************************)
(* C8: when the connection succeeds and no pin write fails, the reset pin  *)
(* is written exactly three times, High, Low, High, each write followed by *)
(* a 50 ms wait, all before the first bus transaction.                     *)
(***************************************************************************)
C8_ResetSequence ==
  (op = "New" /\ ResetDone /\ log[1].ok /\ NoPinWriteFailed) =>
    /\ Len(log) >= 7
    /\ IsRstWriteOf(log[2], "High") /\ IsSleepOf(log[3], 50)
    /\ IsRstWriteOf(log[4], "Low") /\ IsSleepOf(log[5], 50)
    /\ IsRstWriteOf(log[6], "High") /\ IsSleepOf(log[7], 50)
    /\ \A i \in 1 .. Len(log) : IsRstWrite(log[i]) => i \in {2, 4, 6}
    /\ \A i \in 1 .. Len(log) : IsTx(log[i]) => i > 7

C8_Witness ==
  /\ Returned("New")
  /\ err = NoErr
  /\ faults = 0
  /\ \E i \in 1 .. Len(log) : IsTx(log[i])
  /\ Cardinality({i \in 1 .. Len(log) : IsRstWrite(log[i])}) = 3

(***************************************************************************)
(* C9: a failed reset-pin write ends New: that error and no handle are     *)
(* returned, and New makes no further reset-pin write, no dc write and no  *)
(* bus transaction.                                                        *)
(***************************************************************************)
C9_ResetFailureStopsNew ==
  op = "New" =>
    \A i \in 1 .. Len(log) :
      (IsRstWrite(log[i]) /\ ~log[i].ok) =>
        /\ i = Len(log)
        /\ pc = "return"
        /\ err = Err("pin", i)
        /\ handle = NoDev
        /\ \A j \in 1 .. Len(log) : ~IsTx(log[j]) /\ ~IsDcWrite(log[j])

C9_Witness ==
  /\ Returned("New")
  /\ \E i \in 1 .. Len(log) : IsRstWrite(log[i]) /\ ~log[i].ok /\ i > 2

ReportedOrDefault ==
  IF limits.has /\ limits.size # 0 THEN limits.size ELSE 4096

HandleSizeNegotiated ==
  handle # NoDev =>
    /\ handle.maxTxSize = ReportedOrDefault
    /\ handle.maxTxSize # 0
    /\ d = handle

(***************************************************************************)
(* C10: the handle New returns has the transfer size the transport         *)
(* reported, or 4096 when the transport has no limit query or reported 0;  *)
(* it is never zero and no SetImage call changes it.                       *)
(***************************************************************************)
C10_MaxTxSize ==
  /\ []HandleSizeNegotiated
  /\ [][(handle # NoDev) => (handle' = handle /\ d' = d)]_vars

C10_Witness ==
  /\ Returned("SetImage")
  /\ limits.has
  /\ limits.size = SmallTx
  /\ handle.maxTxSize = SmallTx
  /\ \E i \in 1 .. Len(log) : IsPixelTx(log[i])

(***************************************************************************)
(* C11: for the geometry of every Dev, OffsetXEnd > OffsetX and            *)
(* OffsetYEnd > OffsetY, the X range lies in [0, width) and the Y range in *)
(* [0, height), and no offset wraps around as a byte.                      *)
(***************************************************************************)
C11_GeometryRanges ==
  d # NoDev =>
    LET m == d.Model
    IN  /\ OffsetXEnd(m) > OffsetX(m)
        /\ OffsetYEnd(m) > OffsetY(m)
        /\ 0 <= OffsetX(m) /\ OffsetXEnd(m) < 162
        /\ 0 <= OffsetY(m) /\ OffsetYEnd(m) < 132
        /\ m = "ModelMini" =>
             /\ OffsetYEnd(m) = 160 + OffsetY(m) - 1
             /\ OffsetXEnd(m) = 80 + OffsetX(m) - 1

(***************************************************************************)
(* Reading the result of toRGB565.                                         *)
(***************************************************************************)
Converted == op = "toRGB565" /\ pc = "sendDataOut"

\* the pixels of an image
PixelsOf(r) == (r.MinX .. r.MaxX - 1) \X (r.MinY .. r.MaxY - 1)

\* where the buffer holds the first byte of pixel p, counting from 0, when the
\* pixels are laid out column after column
SlotOf(r, p) == 2 * ((p[1] - r.MinX) * Dy(r) + (p[2] - r.MinY))

\* the word of a colour: top 5 bits of red, top 6 of green, top 5 of blue
TopBitsWord(c) == (c[1] \div 2048) * 2048 + (c[2] \div 1024) * 32 + (c[3] \div 2048)

\* the buffer holds word w, high byte first, at slot k
HoldsWord(buf, k, w) ==
  /\ k + 2 <= Len(buf)
  /\ buf[k + 1] = w \div 256
  /\ buf[k + 2] = w % 256

(***************************************************************************)
(* C12: for every pixel, whatever its channel values in 0..65535 and its   *)
(* alpha, toRGB565 emits, high byte first, the word made of r >> 11 in     *)
(* bits 15..11, g >> 10 in bits 10..5 and b >> 11 in bits 4..0.            *)
(***************************************************************************)
C12_TopBitsPacked ==
  Converted =>
    \A p \in PixelsOf(img) :
      HoldsWord(payload, SlotOf(img, p), TopBitsWord(At(img, p[1], p[2])))

(***************************************************************************)
(* C13: for a 1x1 image toRGB565 returns exactly two bytes: FF FF for a    *)
(* white pixel, F8 00 for pure red, 07 E0 for pure green and 00 1F for     *)
(* pure blue, whatever the alpha.                                          *)
(***************************************************************************)
C13_OnePixelExamples ==
  (op = "toRGB565" /\ pc # "toRGB565" /\ Dx(img) = 1 /\ Dy(img) = 1) =>
    LET rgb == << img.c[1], img.c[2], img.c[3] >>
    IN  /\ rgb = << 65535, 65535, 65535 >> => (Converted /\ payload = << 255, 255 >>)
        /\ rgb = << 65535, 0, 0 >> => (Converted /\ payload = << 248, 0 >>)
        /\ rgb = << 0, 65535, 0 >> => (Converted /\ payload = << 7, 224 >>)
        /\ rgb = << 0, 0, 65535 >> => (Converted /\ payload = << 0, 31 >>)

(***************************************************************************)
(* C14: for every image, whatever its bounds, toRGB565 returns a buffer of *)
(* 2 * Dx * Dy bytes in which every pixel of the image is written, each in *)
(* a slot of its own, and it writes nothing outside the buffer.            *)
(***************************************************************************)
C14_BufferHoldsEveryPixel ==
  (op = "toRGB565" /\ pc # "toRGB565") =>
    /\ Converted
    /\ Len(payload) = 2 * Dx(img) * Dy(img)
    /\ \A p \in PixelsOf(img) :
         LET c == At(img, p[1], p[2])
         IN  HoldsWord(payload, SlotOf(img, p), RGB565(c[1], c[2], c[3]))

(***************************************************************************)
(* C15: no call of New or SetImage ends in a panic, whatever the outcomes  *)
(* of the collaborators, the reported transfer size and the image bounds.  *)
(***************************************************************************)
C15_NoPanic ==
  (op = "New" \/ op = "SetImage") => pc # "panic"

\* the calls New makes for the k-th command of its table, in order
CommandEvents(k) ==
  SelectSeq(log, LAMBDA e : e.ci = k /\ e.by \in {"sendCommand", "sendData", "send"})

\* what is compared of a call: which call it is and what it carries
Step(e) == << e.ev, e.pin, e.level, e.bytes, e.ms >>

StepsOf(es) == [j \in 1 .. Len(es) |-> Step(es[j])]

\* the k-th of the pieces of at most m bytes that bytes is cut into
Piece(bytes, m, k) ==
  SubSeq(bytes, (k - 1) * m + 1, IF k * m < Len(bytes) THEN k * m ELSE Len(bytes))

Pieces(bytes, m) == [k \in 1 .. CeilDiv(Len(bytes), m) |-> Piece(bytes, m, k)]

\* the steps of one command whose payload goes out as the transactions txs
CommandSteps(c, txs) ==
  << << "out", "dc", "Low", << >>, 0 >>, << "tx", "", "", << c.Command >>, 0 >> >>
  \o (IF c.DataNil
      THEN << >>
      ELSE << << "out", "dc", "High", << >>, 0 >> >>
           \o [j \in 1 .. Len(txs) |-> << "tx", "", "", txs[j], 0 >>])
  \o (IF c.Delay # 0 THEN << << "sleep", "", "", << >>, c.Delay >> >> ELSE << >>)

\* New is done with the k-th command: it went on to the next one or returned
CommandDone(k) == ci > k \/ (pc = "return" /\ err = NoErr)

\* the calls of a command all come before the calls of the next one
CommandsInOrder ==
  \A i, j \in 1 .. Len(log) :
    (i < j /\ log[i].ci >= 1 /\ log[j].ci >= 1) => log[i].ci <= log[j].ci

(***************************************************************************)
(* C16, as stated: in New, every command that is done has produced, in     *)
(* order, one 1-byte opcode transaction with dc low, then (if it has a     *)
(* payload) ONE transaction with dc high carrying the whole payload, then  *)
(* its delay if it has one; and no call of a later command comes before.   *)
(***************************************************************************)
C16_OnePayloadTransaction ==
  Running("New") =>
    /\ CommandsInOrder
    /\ \A k \in 1 .. Len(cmds) :
         CommandDone(k) =>
           StepsOf(CommandEvents(k)) = CommandSteps(cmds[k], << cmds[k].Data >>)

(***************************************************************************)
(* C16, amended: the same, except that the payload goes out as             *)
(* ceil(L/maxTxSize) transactions of at most maxTxSize bytes which, put    *)
(* together, are the payload; that is one transaction carrying the whole   *)
(* payload exactly when the payload is no longer than maxTxSize.           *)
(***************************************************************************)
C16_PayloadInPieces ==
  Running("New") =>
    /\ CommandsInOrder
    /\ \A k \in 1 .. Len(cmds) :
         CommandDone(k) =>
           /\ StepsOf(CommandEvents(k))
                = CommandSteps(cmds[k], Pieces(cmds[k].Data, d.maxTxSize))
           /\ (1 <= Len(cmds[k].Data) /\ Len(cmds[k].Data) <= d.maxTxSize) =>
                Pieces(cmds[k].Data, d.maxTxSize) = << cmds[k].Data >>

\* New has succeeded with a limit that cuts the 6-byte payload of
\* frame-control-3 and leaves the 3-byte payloads whole
C16_Witness ==
  /\ Returned("New") /\ err = NoErr
  /\ d.maxTxSize < 6
  /\ Len(SelectSeq(CommandEvents(5), IsDataTx)) >= 2
  /\ Len(SelectSeq(CommandEvents(3), IsDataTx)) = 1
  /\ \E e \in {log[i] : i \in 1 .. Len(log)} : e.ev = "sleep" /\ e.ci = 21

\* the payload transactions New issued for the k-th command
PayloadTxs(k) == SelectSeq(CommandEvents(k), IsDataTx)

\* the delays New made for the k-th command
DelaysOf(k) ==
  LET s == SelectSeq(CommandEvents(k), LAMBDA e : e.ev = "sleep")
  IN  [j \in 1 .. Len(s) |-> s[j].ms]

\* where the table has software-reset, sleep-out, inversion-off,
\* partial-mode-off and display-on
NoPayloadCommands == {1, 2, 13, 20, 21}

(***************************************************************************)
(* C17: in New, software-reset, sleep-out, inversion-off, partial-mode-off *)
(* and display-on are sent as an opcode only: once New is done with such a *)
(* command, no payload transaction was issued for it; and partial-mode-off *)
(* was followed by one delay of 10 ms, display-on by one of 100 ms.        *)
(***************************************************************************)
C17_OpcodeOnlyCommands ==
  Running("New") =>
    /\ \A k \in NoPayloadCommands :
         CommandDone(k) =>
           (cmds[k].Command = InitOpcodes[k] /\ PayloadTxs(k) = << >>)
    /\ CommandDone(20) => DelaysOf(20) = << 10 >>
    /\ CommandDone(21) => DelaysOf(21) = << 100 >>

\* the bytes New sent with dc high for the k-th command
PayloadBytes(k) == BytesOf(PayloadTxs(k))

\* the payloads setWindowAddress sends for the geometry of d's model
GeometryWindow ==
  LET m == d.Model
  IN  WindowTable(OffsetX(m), OffsetXEnd(m), OffsetY(m), OffsetYEnd(m))

(***************************************************************************)
(* C18: when New has succeeded, the payload it sent after opcode 0x2A is   *)
(* the four bytes [0, OffsetX, 0, OffsetXEnd] and the payload it sent      *)
(* after opcode 0x2B the four bytes [0, OffsetY, 0, OffsetYEnd], which are *)
(* the payloads setWindowAddress sends for the same geometry.              *)
(***************************************************************************)
C18_ConstructionWindow ==
  (Returned("New") /\ err = NoErr /\ faults = 0) =>
    LET m == d.Model
    IN  /\ cmds[16].Command = columnAddress
        /\ cmds[17].Command = rowAddress
        /\ PayloadBytes(16) = << 0, OffsetX(m), 0, OffsetXEnd(m) >>
        /\ PayloadBytes(17) = << 0, OffsetY(m), 0, OffsetYEnd(m) >>
        /\ PayloadBytes(16) = GeometryWindow[1].Data
        /\ PayloadBytes(17) = GeometryWindow[2].Data

\* the bytes of the buffer at positions k and k + 1, counted from 0
BytesAt(buf, k) == << buf[k + 1], buf[k + 2] >>

\* the two bytes toRGB565 makes of the pixel (x, y)
PixelBytes(r, x, y) ==
  LET c == At(r, x, y)
  IN  PutUint16(RGB565(c[1], c[2], c[3]))

(***************************************************************************)
(* C19: for an image of width W and height H whose bounds start at (0,0),  *)
(* the buffer toRGB565 returns holds the two bytes of pixel (x, y) at the  *)
(* positions 2*(x*H + y) and 2*(x*H + y) + 1, for all 0 <= x < W and       *)
(* 0 <= y < H (column-major order).                                        *)
(***************************************************************************)
C19_ColumnMajor ==
  (op = "toRGB565" /\ pc # "toRGB565" /\ img.MinX = 0 /\ img.MinY = 0) =>
    LET W == Dx(img)
        H == Dy(img)
    IN  /\ pc = "sendDataOut"
        /\ \A x \in 0 .. W - 1 : \A y \in 0 .. H - 1 :
             /\ 2 * (x * H + y) + 1 < Len(payload)
             /\ BytesAt(payload, 2 * (x * H + y)) = PixelBytes(img, x, y)

\* a converted 2x2 image in which the pixels (0,1) and (1,0), which the two
\* orders place differently, have different bytes
C19_Witness ==
  /\ op = "toRGB565" /\ pc = "sendDataOut"
  /\ img.MinX = 0 /\ img.MinY = 0 /\ Dx(img) = 2 /\ Dy(img) = 2
  /\ PixelBytes(img, 0, 1) # PixelBytes(img, 1, 0)
  /\ BytesAt(payload, 2) = PixelBytes(img, 0, 1)
  /\ BytesAt(payload, 4) = PixelBytes(img, 1, 0)

\* every iteration of the loop strictly shortens the remaining data
LoopShortensData == pc = "sendDataLoop" => Len(data') < Len(data)

\* the transactions issued and the bytes still to send never exceed the
\* payload, so there are at most Len(payload) transactions
TransactionsBounded == Len(Chunks) + Len(data) <= Len(payload)

====
